---- MODULE Spec2Model ----
(***************************************************************************)
(* Model of MLGitClient (src/src/mlgit/mlgit_client.py): a client that    *)
(* keeps model versions, a version list and one backtest table per model  *)
(* in a hosted git repository.                                             *)
(*                                                                         *)
(* One model name is modelled (every path of the client is relative to    *)
(* registry_dpath/model_name).  The remote repository holds three things  *)
(* for it: versions.json, one directory per model version, backtest.csv.  *)
(* The collaborators (pyutils.git, PickableObject, the local filesystem)  *)
(* are modelled by their interface: a call of a collaborator either       *)
(* succeeds with its documented effect or raises, chosen by the           *)
(* environment.                                                            *)
(*                                                                         *)
(* Three specifications share the state:                                   *)
(*   Spec            one client; register_model, log_model_version,       *)
(*                   make_model_version_local_paths,                      *)
(*                   log_model_version_from_local, get_model_version,     *)
(*                   get_version_list, log_json_artifact and log_artifact *)
(*                   (versions.json or a `model` file, for the model or   *)
(*                   for one of its versions)                             *)
(*   SpecBacktest    one client; log_model_backtest, get_model_backtest,  *)
(*                   log_pandas_artifact and log_artifact on backtest.csv *)
(*   SpecConcurrent  two clients of the same repository, each in its own  *)
(*                   working directory; log_model_backtest                 *)
(* The version operations and the backtest operations touch different     *)
(* remote and local paths, so they are explored separately.               *)
(***************************************************************************)
EXTENDS Integers, Sequences, FiniteSets, TLC

\* ------------------------------------------------------------------ bounds
MaxKey == 3         \* index keys (dates) and version timestamps are 1..MaxKey
MaxObj == 2         \* number of distinct model objects
MaxListLen == 3     \* log_model_version is started only below this list length
MaxCalls == 3       \* calls started in the two-client specification

\* version_timestamp: datetime.datetime = None (the argument was not supplied)
NoTimestamp == 0

\* model_version: str = None (the artifact belongs to the model, not to a version)
NoVersion == ""

Clients == {"a", "b"}
Versions == {"v1", "v2"}
Objs == 1..MaxObj

\* The model_version argument of the artifact operations.
ArtifactVersions == {NoVersion} \cup Versions
Keys == 1..MaxKey

\* ------------------------------------------------------------------ state
VARIABLES
    versionsJson,      \* remote <model_name>/versions.json: [exists, text]
    remoteVersionDir,  \* remote <model_name>/<model_version>/model, <<>> when there
                       \* is no such file
    backtestCsv,       \* remote <model_name>/backtest.csv: [exists, header, lines]
    localDisk,         \* per client: the paths under os.getcwd() that the client's
                       \* calls create (files and directories a caller hands to
                       \* log_artifact or log_model_version_from_local are the
                       \* caller's own and given by their content)
    pc,                \* per client: position inside the running call
    call,              \* per client: arguments and locals of the running / last call
    started            \* number of calls started (two-client specification only)

vars == <<versionsJson, remoteVersionDir, backtestCsv, localDisk, pc, call, started>>

\* -------------------------------------------------------------- serializers
\* json.dump of a list of strings: the array's tokens.
JsonDump(list) ==
    LET Item(i) == IF i = 1 THEN <<list[i]>> ELSE <<",", list[i]>>
        Items[i \in 0..Len(list)] == IF i = 0 THEN <<>> ELSE Items[i - 1] \o Item(i)
    IN  <<"[">> \o Items[Len(list)] \o <<"]">>

\* json.loads of such a text.
JsonLoads(text) == SelectSeq(text, LAMBDA t : t \notin {"[", ",", "]"})

\* PickableObject.save / PickableObject.restore (opaque format).
Pickle(obj) == <<"pickle", obj>>

Restore(bytes) == bytes[2]

\* ------------------------------------------------------------------ helpers
\* The record of a call before it starts: no arguments, no locals.
NoCall ==
    [op |-> "none", model_version |-> NoVersion, obj |-> 0, local_dir |-> <<>>,
     model_versions |-> <<>>,
     series |-> <<>>, model_backtest |-> <<>>, version_timestamp |-> NoTimestamp, supplied |-> FALSE,
     prior_model_backtest |-> <<>>, read |-> "none", outcome |-> "none",
     result |-> <<>>]

\* The `model` file of a local directory handed to push_directory: <<>> when
\* the directory holds none.
DirContents == {<<>>} \cup {Pickle(o) : o \in Objs}

\* push_directory uploads the files of the local directory: the remote `model`
\* file becomes the local one; a directory without one leaves it as it was.
PushedModel(remote_model, local_dir) ==
    IF local_dir = <<>> THEN remote_model ELSE local_dir

\* The values logged as versions.json.
VersionLists == UNION {[1..n -> Versions] : n \in 0..MaxListLen}

\* os.path.join(os.getcwd(), f"{artifact_name}.json") for artifact "versions"
TempJson == "versions.json"

\* os.path.join(os.getcwd(), f"{artifact_name}.csv") for artifact "backtest"
TempCsv == "backtest.csv"

\* os.path.join(os.getcwd(), "temp_model_version")
TempModelVersion == "temp_model_version"

\* The file name of a saved model inside its version directory.
ModelFile == "model"

\* make_model_version_local_paths: the directory <cwd>/<model_version> and the
\* path of the model file in it (paths relative to the working directory, as
\* their components).
ModelVersionLocalPaths(model_version) == <<model_version, <<model_version, ModelFile>>>>

\* make_model_version_local_paths on the local disk: the directory is created
\* unless it exists.
DiskAfterMakePaths(disk, model_version) == disk \cup {model_version}

\* log_json_artifact on the local disk: the temp file is written, pushed and
\* removed; when the push raises, os.remove is never reached.
DiskAfterLogJson(disk, ok) == IF ok THEN disk \ {TempJson} ELSE disk \cup {TempJson}

DiskAfterLogCsv(disk, ok) == IF ok THEN disk \ {TempCsv} ELSE disk \cup {TempCsv}

\* An insert at the front instead of the end.
AppendVersionMutant(model_versions, model_version) == <<model_version>> \o model_versions

\* model_versions.append(model_version)
AppendVersion(model_versions, model_version) == Append(model_versions, model_version)

\* raise: the call ends with an exception
Raise(r) == [r EXCEPT !.outcome = "raised"]

\* ------------------------------------------------------------------ Init
Init ==
    /\ versionsJson = [exists |-> FALSE, text |-> <<>>]
    /\ remoteVersionDir = [v \in Versions |-> <<>>]
    /\ backtestCsv = [exists |-> FALSE, header |-> <<>>, lines |-> <<>>]
    /\ localDisk = [c \in Clients |-> {}]
    /\ pc = [c \in Clients |-> "idle"]
    /\ call = [c \in Clients |-> NoCall]
    /\ started = 0

\* ------------------------------------------------------------- call return
\* A finished call (returned or raised) hands control back to its caller: its
\* arguments and locals are gone, the client can be called again.
Return(c) ==
    /\ pc[c] = "done"
    /\ pc' = [pc EXCEPT ![c] = "idle"]
    /\ call' = [call EXCEPT ![c] = NoCall]
    /\ UNCHANGED <<versionsJson, remoteVersionDir, backtestCsv, localDisk, started>>

\* ------------------------------------------------------ version operations
\* register_model: log_json_artifact([], "versions").
RegisterModel(c, ok) ==
    /\ pc[c] = "idle"
    /\ versionsJson' = IF ok THEN [exists |-> TRUE, text |-> JsonDump(<<>>)]
                             ELSE versionsJson
    /\ localDisk' = [localDisk EXCEPT ![c] = DiskAfterLogJson(@, ok)]
    /\ call' = [call EXCEPT ![c] = [NoCall EXCEPT !.op = "register_model",
                    !.outcome = IF ok THEN "returned" ELSE "raised"]]
    /\ pc' = [pc EXCEPT ![c] = "done"]
    /\ UNCHANGED <<remoteVersionDir, backtestCsv, started>>

\* log_model_version, up to pickable_model.save: make_model_version_local_paths
\* creates <cwd>/<model_version> unless it exists, then the model is saved in it.
SaveModel(c, obj, v, ok) ==
    /\ pc[c] = "idle"
    /\ Len(JsonLoads(versionsJson.text)) < MaxListLen
    /\ localDisk' = [localDisk EXCEPT ![c] = DiskAfterMakePaths(@, v)]
    /\ call' = [call EXCEPT ![c] = [NoCall EXCEPT !.op = "log_model_version",
                    !.model_version = v, !.obj = obj,
                    !.local_dir = IF ok THEN Pickle(obj) ELSE <<>>,
                    !.outcome = IF ok THEN "running" ELSE "raised"]]
    /\ pc' = [pc EXCEPT ![c] = IF ok THEN "push_directory" ELSE "done"]
    /\ UNCHANGED <<versionsJson, remoteVersionDir, backtestCsv, started>>

\* A push_directory whose failure is swallowed.
PushDirectoryMutant(c, ok) ==
    /\ pc[c] = "push_directory"
    /\ remoteVersionDir' = IF ok
          THEN [remoteVersionDir EXCEPT ![call[c].model_version] =
                    PushedModel(@, call[c].local_dir)]
          ELSE remoteVersionDir
    /\ pc' = [pc EXCEPT ![c] = "get_version_list"]
    /\ UNCHANGED <<versionsJson, backtestCsv, localDisk, call, started>>

\* log_model_version_from_local: push_directory(local dir -> remote version path).
PushDirectory(c, ok) ==
    /\ pc[c] = "push_directory"
    /\ remoteVersionDir' = IF ok
          THEN [remoteVersionDir EXCEPT ![call[c].model_version] =
                    PushedModel(@, call[c].local_dir)]
          ELSE remoteVersionDir
    /\ pc' = [pc EXCEPT ![c] = IF ok THEN "get_version_list" ELSE "done"]
    /\ call' = [call EXCEPT ![c] = IF ok THEN @ ELSE Raise(@)]
    /\ UNCHANGED <<versionsJson, backtestCsv, localDisk, started>>

\* log_model_version_from_local: get_version_list, then append. The read raises
\* when versions.json is absent (NotFound) or when the transport fails.
GetVersionList(c, ok) ==
    /\ pc[c] = "get_version_list"
    /\ IF ok /\ versionsJson.exists
          THEN /\ call' = [call EXCEPT ![c].model_versions =
                              AppendVersion(JsonLoads(versionsJson.text),
                                            call[c].model_version)]
               /\ pc' = [pc EXCEPT ![c] = "log_json_artifact"]
          ELSE /\ call' = [call EXCEPT ![c] = Raise(@)]
               /\ pc' = [pc EXCEPT ![c] = "done"]
    /\ UNCHANGED <<versionsJson, remoteVersionDir, backtestCsv, localDisk, started>>

\* log_model_version_from_local: log_json_artifact(model_versions, "versions");
\* within log_model_version, then shutil.rmtree of the local version directory.
LogVersionList(c, ok) ==
    /\ pc[c] = "log_json_artifact"
    /\ versionsJson' = IF ok
          THEN [exists |-> TRUE, text |-> JsonDump(call[c].model_versions)]
          ELSE versionsJson
    /\ localDisk' = [localDisk EXCEPT ![c] =
          IF ok /\ call[c].op = "log_model_version"
              THEN DiskAfterLogJson(@, ok) \ {call[c].model_version}
              ELSE DiskAfterLogJson(@, ok)]
    /\ call' = [call EXCEPT ![c].outcome = IF ok THEN "returned" ELSE "raised"]
    /\ pc' = [pc EXCEPT ![c] = "done"]
    /\ UNCHANGED <<remoteVersionDir, backtestCsv, started>>

\* get_model_version: os.mkdir returns None, so model_version_local_dpath is None.
\* os.mkdir raises FileExistsError when the directory is there; otherwise the
\* directory is created, pull_directory is called with a None destination
\* (whether it raises or returns), and os.path.join(None, "model") raises
\* TypeError. shutil.rmtree is never reached.
GetModelVersion(c, v) ==
    /\ pc[c] = "idle"
    /\ localDisk' = [localDisk EXCEPT ![c] = @ \cup {TempModelVersion}]
    /\ call' = [call EXCEPT ![c] = [NoCall EXCEPT !.op = "get_model_version",
                    !.model_version = v, !.outcome = "raised"]]
    /\ pc' = [pc EXCEPT ![c] = "done"]
    /\ UNCHANGED <<versionsJson, remoteVersionDir, backtestCsv, started>>

\* make_model_version_local_paths called by the user: the version directory is
\* created under the working directory unless it exists, and stays; the two
\* paths are returned. No collaborator is called.
MakeModelVersionLocalPaths(c, v) ==
    /\ pc[c] = "idle"
    /\ localDisk' = [localDisk EXCEPT ![c] = DiskAfterMakePaths(@, v)]
    /\ call' = [call EXCEPT ![c] = [NoCall EXCEPT
                    !.op = "make_model_version_local_paths",
                    !.model_version = v, !.outcome = "returned",
                    !.result = ModelVersionLocalPaths(v)]]
    /\ pc' = [pc EXCEPT ![c] = "done"]
    /\ UNCHANGED <<versionsJson, remoteVersionDir, backtestCsv, started>>

\* log_model_version_from_local called by the user with a directory of their
\* own: the call starts at push_directory; the directory is not removed.
LogModelVersionFromLocal(c, v, local_dir) ==
    /\ pc[c] = "idle"
    /\ Len(JsonLoads(versionsJson.text)) < MaxListLen
    /\ call' = [call EXCEPT ![c] = [NoCall EXCEPT
                    !.op = "log_model_version_from_local",
                    !.model_version = v, !.local_dir = local_dir,
                    !.outcome = "running"]]
    /\ pc' = [pc EXCEPT ![c] = "push_directory"]
    /\ UNCHANGED <<versionsJson, remoteVersionDir, backtestCsv, localDisk, started>>

\* get_version_list called by the user: raises when versions.json is absent
\* (NotFound) or the transport fails.
GetVersionListCall(c, ok) ==
    /\ pc[c] = "idle"
    /\ call' = [call EXCEPT ![c] =
          IF ok /\ versionsJson.exists
              THEN [NoCall EXCEPT !.op = "get_version_list", !.outcome = "returned",
                                  !.result = JsonLoads(versionsJson.text)]
              ELSE [NoCall EXCEPT !.op = "get_version_list", !.outcome = "raised"]]
    /\ pc' = [pc EXCEPT ![c] = "done"]
    /\ UNCHANGED <<versionsJson, remoteVersionDir, backtestCsv, localDisk, started>>

\* log_json_artifact(json_artifact, "versions", model_name, model_version)
\* called by the user: the temp file <cwd>/versions.json is written, pushed
\* under model_remote_path(model_name, model_version) and removed. With a
\* model_version the remote file is <model_version>/versions.json, which is
\* not the version list.
LogJsonArtifact(c, json_artifact, model_version, ok) ==
    /\ pc[c] = "idle"
    /\ versionsJson' = IF ok /\ model_version = NoVersion
                           THEN [exists |-> TRUE, text |-> JsonDump(json_artifact)]
                           ELSE versionsJson
    /\ localDisk' = [localDisk EXCEPT ![c] = DiskAfterLogJson(@, ok)]
    /\ call' = [call EXCEPT ![c] = [NoCall EXCEPT !.op = "log_json_artifact",
                    !.model_version = model_version,
                    !.model_versions = json_artifact,
                    !.outcome = IF ok THEN "returned" ELSE "raised"]]
    /\ pc' = [pc EXCEPT ![c] = "done"]
    /\ UNCHANGED <<remoteVersionDir, backtestCsv, started>>

\* log_artifact called by the user with a file of their own: push_files puts
\* it under model_remote_path(model_name, model_version), under its own name.
\* versions.json and backtest.csv of the model are replaced when model_version
\* is None, the `model` file of a version when model_version is that version;
\* any other target is a remote file no operation of the client reads.
\* Nothing local is created or removed.
LogArtifact(c, name, content, model_version, ok) ==
    /\ pc[c] = "idle"
    /\ versionsJson' = IF ok /\ name = TempJson /\ model_version = NoVersion
                           THEN [exists |-> TRUE, text |-> content] ELSE versionsJson
    /\ backtestCsv' = IF ok /\ name = TempCsv /\ model_version = NoVersion
                          THEN content ELSE backtestCsv
    /\ remoteVersionDir' = IF ok /\ name = ModelFile /\ model_version # NoVersion
                               THEN [remoteVersionDir EXCEPT ![model_version] = content]
                               ELSE remoteVersionDir
    /\ call' = [call EXCEPT ![c] = [NoCall EXCEPT !.op = "log_artifact",
                    !.model_version = model_version,
                    !.outcome = IF ok THEN "returned" ELSE "raised"]]
    /\ pc' = [pc EXCEPT ![c] = "done"]
    /\ UNCHANGED <<localDisk, started>>

NextVersions ==
    \/ \E ok \in BOOLEAN : RegisterModel("a", ok)
    \/ \E obj \in Objs, v \in Versions, ok \in BOOLEAN : SaveModel("a", obj, v, ok)
    \/ \E v \in Versions, d \in DirContents : LogModelVersionFromLocal("a", v, d)
    \/ \E ok \in BOOLEAN : GetVersionListCall("a", ok)
    \/ \E v \in Versions : MakeModelVersionLocalPaths("a", v)
    \/ \E l \in VersionLists, mv \in ArtifactVersions, ok \in BOOLEAN :
          LogJsonArtifact("a", l, mv, ok)
    \/ \E l \in VersionLists, mv \in ArtifactVersions, ok \in BOOLEAN :
          LogArtifact("a", TempJson, JsonDump(l), mv, ok)
    \/ \E obj \in Objs, mv \in ArtifactVersions, ok \in BOOLEAN :
          LogArtifact("a", ModelFile, Pickle(obj), mv, ok)
    \/ \E ok \in BOOLEAN : PushDirectory("a", ok)
    \/ \E ok \in BOOLEAN : GetVersionList("a", ok)
    \/ \E ok \in BOOLEAN : LogVersionList("a", ok)
    \/ \E v \in Versions : GetModelVersion("a", v)
    \/ Return("a")

Spec == Init /\ [][NextVersions]_vars

\* ------------------------------------------------------------ backtest frames
\* A frame is a sequence of rows [date, pred, version_timestamp]; date is the
\* index. The input of log_model_backtest is a sequence of rows [date, pred].
FrameKeys(frame) == {frame[i].date : i \in 1..Len(frame)}

FrameRows(frame) == {frame[i] : i \in 1..Len(frame)}

\* frame.loc[key] for a key of the frame
RowOf(frame, key) == frame[CHOOSE i \in 1..Len(frame) : frame[i].date = key]

\* The oldest prediction instead of the most recent one.
IndexMinMutant(series) ==
    CHOOSE k \in FrameKeys(series) : \A j \in FrameKeys(series) : k <= j

\* model_backtest.index.max()
IndexMax(series) ==
    CHOOSE k \in FrameKeys(series) : \A j \in FrameKeys(series) : k >= j

\* version_timestamp defaults to the most recent prediction
VersionTimestamp(series, version_timestamp) ==
    IF version_timestamp = NoTimestamp THEN IndexMax(series) ELSE version_timestamp

\* model_backtest["version_timestamp"] = version_timestamp
WithVersionTimestamp(series, version_timestamp) ==
    [i \in 1..Len(series) |->
        [date |-> series[i].date, pred |-> series[i].pred,
         version_timestamp |-> version_timestamp]]

\* DataFrame.to_csv: a header line (index name "date", the columns as strings)
\* and one line of fields per row, in row order.
ToCsv(frame) ==
    [exists |-> TRUE,
     header |-> <<"date", "pred", "version_timestamp">>,
     lines  |-> [i \in 1..Len(frame) |->
                   <<frame[i].date, frame[i].pred, frame[i].version_timestamp>>]]

\* get_model_backtest: read_csv, first column and version_timestamp to datetime,
\* first column as the index.
ReadModelBacktest(csv) ==
    LET Col(name) == CHOOSE j \in 1..Len(csv.header) : csv.header[j] = name
    IN  [i \in 1..Len(csv.lines) |->
            [date |-> csv.lines[i][1],
             pred |-> csv.lines[i][Col("pred")],
             version_timestamp |-> csv.lines[i][Col("version_timestamp")]]]

\* A mask that leaves out the test of the prior row's key against its own
\* version_timestamp.
OverrideMaskMutant(row, model_backtest, version_timestamp) ==
    /\ row.date \in FrameKeys(model_backtest)
    /\ row.version_timestamp > version_timestamp

\* The boolean mask over the rows of prior_model_backtest.
OverrideMask(row, model_backtest, version_timestamp) ==
    /\ row.date \in FrameKeys(model_backtest)
    /\ row.version_timestamp > version_timestamp
    /\ row.date < row.version_timestamp

\* prior_model_backtest[mask] = model_backtest: the masked rows take the row of
\* model_backtest with the same index key.
Override(prior_model_backtest, model_backtest, version_timestamp) ==
    [i \in 1..Len(prior_model_backtest) |->
        IF OverrideMask(prior_model_backtest[i], model_backtest, version_timestamp)
            THEN RowOf(model_backtest, prior_model_backtest[i].date)
            ELSE prior_model_backtest[i]]

\* model_backtest[~model_backtest.index.isin(prior_model_backtest.index)]
NewRows(prior_model_backtest, model_backtest) ==
    SelectSeq(model_backtest, LAMBDA r : r.date \notin FrameKeys(prior_model_backtest))

\* A concat that is not sorted.
SortIndexMutant(frame) == frame

\* DataFrame.sort_index(): rows by ascending index key.
SortIndex(frame) ==
    LET Insert(sorted, r) ==
            LET n == Cardinality({j \in 1..Len(sorted) : sorted[j].date <= r.date})
            IN  SubSeq(sorted, 1, n) \o <<r>> \o SubSeq(sorted, n + 1, Len(sorted))
        Sorted[i \in 0..Len(frame)] ==
            IF i = 0 THEN <<>> ELSE Insert(Sorted[i - 1], frame[i])
    IN  Sorted[Len(frame)]

\* The merge of log_model_backtest when a prior backtest was read.
MergeBacktest(prior_model_backtest, model_backtest, version_timestamp) ==
    LET overridden == Override(prior_model_backtest, model_backtest, version_timestamp)
    IN  SortIndex(overridden \o NewRows(overridden, model_backtest))

\* The table log_model_backtest logs: the bare except takes every failure of
\* the prior read for "no prior backtest".
NewModelBacktest(r) ==
    IF r.read = "ok"
        THEN MergeBacktest(r.prior_model_backtest, r.model_backtest, r.version_timestamp)
        ELSE r.model_backtest

\* ------------------------------------------------------ backtest operations
\* log_model_backtest up to the read of the prior backtest. The read raises
\* NotFound when backtest.csv is absent, or fails in transport.
ReadPrior(c, series, version_timestamp, fault) ==
    /\ pc[c] = "idle"
    /\ LET vt == VersionTimestamp(series, version_timestamp)
           read == IF fault THEN "TransportFailure"
                   ELSE IF backtestCsv.exists THEN "ok" ELSE "NotFound"
       IN  call' = [call EXCEPT ![c] = [NoCall EXCEPT
                !.op = "log_model_backtest",
                !.series = series,
                !.supplied = (version_timestamp # NoTimestamp),
                !.version_timestamp = vt,
                !.model_backtest = WithVersionTimestamp(series, vt),
                !.read = read,
                !.prior_model_backtest =
                    IF read = "ok" THEN ReadModelBacktest(backtestCsv) ELSE <<>>,
                !.outcome = "running"]]
    /\ pc' = [pc EXCEPT ![c] = "merge"]
    /\ UNCHANGED <<versionsJson, remoteVersionDir, backtestCsv, localDisk>>

\* A merge that reads the stored table again when it writes.
MergeAndLogMutant(c, ok) ==
    /\ pc[c] = "merge"
    /\ backtestCsv' = IF ok
          THEN ToCsv(NewModelBacktest([call[c] EXCEPT
                   !.read = IF backtestCsv.exists THEN "ok" ELSE "NotFound",
                   !.prior_model_backtest =
                       IF backtestCsv.exists THEN ReadModelBacktest(backtestCsv)
                                             ELSE <<>>]))
          ELSE backtestCsv
    /\ localDisk' = [localDisk EXCEPT ![c] = DiskAfterLogCsv(@, ok)]
    /\ call' = [call EXCEPT ![c].outcome = IF ok THEN "returned" ELSE "raised"]
    /\ pc' = [pc EXCEPT ![c] = "done"]
    /\ UNCHANGED <<versionsJson, remoteVersionDir, started>>

\* log_model_backtest from the except / override to the end of
\* log_pandas_artifact: to_csv into <cwd>/backtest.csv, push_files, os.remove.
MergeAndLog(c, ok) ==
    /\ pc[c] = "merge"
    /\ backtestCsv' = IF ok THEN ToCsv(NewModelBacktest(call[c])) ELSE backtestCsv
    /\ localDisk' = [localDisk EXCEPT ![c] = DiskAfterLogCsv(@, ok)]
    /\ call' = [call EXCEPT ![c].outcome = IF ok THEN "returned" ELSE "raised"]
    /\ pc' = [pc EXCEPT ![c] = "done"]
    /\ UNCHANGED <<versionsJson, remoteVersionDir, started>>

\* log_pandas_artifact(pandas_artifact, "backtest", model_name, model_version)
\* called by the user: the temp file <cwd>/backtest.csv is written, pushed and
\* removed; nothing is read. Without a model_version the stored table is
\* replaced; with one the remote file is <model_version>/backtest.csv.
LogPandasArtifact(c, pandas_artifact, model_version, ok) ==
    /\ pc[c] = "idle"
    /\ backtestCsv' = IF ok /\ model_version = NoVersion
                          THEN ToCsv(pandas_artifact) ELSE backtestCsv
    /\ localDisk' = [localDisk EXCEPT ![c] = DiskAfterLogCsv(@, ok)]
    /\ call' = [call EXCEPT ![c] = [NoCall EXCEPT !.op = "log_pandas_artifact",
                    !.model_version = model_version,
                    !.outcome = IF ok THEN "returned" ELSE "raised"]]
    /\ pc' = [pc EXCEPT ![c] = "done"]
    /\ UNCHANGED <<versionsJson, remoteVersionDir, started>>

\* get_model_backtest called by the user.
GetModelBacktest(c, ok) ==
    /\ pc[c] = "idle"
    /\ call' = [call EXCEPT ![c] =
          IF ok /\ backtestCsv.exists
              THEN [NoCall EXCEPT !.op = "get_model_backtest", !.outcome = "returned",
                                  !.result = ReadModelBacktest(backtestCsv)]
              ELSE [NoCall EXCEPT !.op = "get_model_backtest", !.outcome = "raised"]]
    /\ pc' = [pc EXCEPT ![c] = "done"]
    /\ UNCHANGED <<versionsJson, remoteVersionDir, backtestCsv, localDisk, started>>

\* ------------------------------------------------------------------ inputs
\* The index of an input series: distinct keys, ascending or descending.
KeyOrders ==
    {ks \in UNION {[1..n -> Keys] : n \in 1..MaxKey} :
        \/ \A i \in 1..(Len(ks) - 1) : ks[i] < ks[i + 1]
        \/ \A i \in 1..(Len(ks) - 1) : ks[i] > ks[i + 1]}

\* Input series: one row per key. The prediction of a row depends on its key
\* and on the model version v that produced the series.
Series(ks, v) == [i \in 1..Len(ks) |-> [date |-> ks[i], pred |-> 10 * v + ks[i]]]

TimestampArgs == {NoTimestamp} \cup Keys

\* The calls log_model_backtest(series, version_timestamp) of the model.
BacktestCalls ==
    {<<Series(ks, VersionTimestamp(Series(ks, 0), t)), t>> :
        ks \in KeyOrders, t \in TimestampArgs}

\* The two-client specification draws from the ascending series,
\* version_timestamp not supplied.
AscendingCalls ==
    {b \in BacktestCalls :
        /\ b[2] = NoTimestamp
        /\ \A i \in 1..(Len(b[1]) - 1) : b[1][i].date < b[1][i + 1].date}

\* A call of log_model_backtest by the one client.
LogModelBacktest(c, series, version_timestamp, fault) ==
    /\ ReadPrior(c, series, version_timestamp, fault)
    /\ UNCHANGED started

\* The tables handed to log_pandas_artifact and log_artifact directly.
BacktestFrames ==
    {WithVersionTimestamp(b[1], VersionTimestamp(b[1], b[2])) : b \in BacktestCalls}

NextBacktest ==
    \/ \E b \in BacktestCalls, fault \in BOOLEAN : LogModelBacktest("a", b[1], b[2], fault)
    \/ \E ok \in BOOLEAN : MergeAndLog("a", ok)
    \/ \E f \in BacktestFrames, mv \in ArtifactVersions, ok \in BOOLEAN :
          LogPandasArtifact("a", f, mv, ok)
    \/ \E f \in BacktestFrames, mv \in ArtifactVersions, ok \in BOOLEAN :
          LogArtifact("a", TempCsv, ToCsv(f), mv, ok)
    \/ \E ok \in BOOLEAN : GetModelBacktest("a", ok)
    \/ Return("a")

SpecBacktest == Init /\ [][NextBacktest]_vars

\* A call of log_model_backtest by one of two clients of the same repository,
\* each in its own working directory; MaxCalls calls are started in all.
LogModelBacktestCounted(c, series, version_timestamp, fault) ==
    /\ started < MaxCalls
    /\ ReadPrior(c, series, version_timestamp, fault)
    /\ started' = started + 1

NextConcurrent ==
    \/ \E c \in Clients, b \in AscendingCalls, fault \in BOOLEAN :
          LogModelBacktestCounted(c, b[1], b[2], fault)
    \/ \E c \in Clients, ok \in BOOLEAN : MergeAndLog(c, ok)
    \/ \E c \in Clients : Return(c)

SpecConcurrent == Init /\ [][NextConcurrent]_vars

\* ==================================================================== claims
\* The version ids in the remote versions.json; none while it is absent.
Entries == IF versionsJson.exists THEN JsonLoads(versionsJson.text) ELSE <<>>

Listed(v) == \E i \in 1..Len(Entries) : Entries[i] = v

\* Client c takes this step as part of a call of one of the operations ops.
StepOf(c, ops) == pc'[c] # pc[c] /\ call'[c].op \in ops

Pushed(v) == remoteVersionDir[v] # <<>>

LoggedBacktest(c) ==
    /\ pc[c] = "done"
    /\ call[c].op = "log_model_backtest"
    /\ call[c].outcome = "returned"

Stored == ReadModelBacktest(backtestCsv)

Ascending(frame) == \A i \in 1..(Len(frame) - 1) : frame[i].date < frame[i + 1].date

\* C1: a log_model_version adds its model_version to the remote version list
\* only when the version directory with the `model` file of the logged object
\* is on the remote, whatever step of the call failed before: no step of the
\* call makes the version listed but missing.
C1_ListedImpliesPushed ==
    [][\A c \in Clients :
          (StepOf(c, {"log_model_version"}) /\ Entries' # Entries) =>
              /\ Listed(call[c].model_version)'
              /\ remoteVersionDir'[call[c].model_version] = Pickle(call[c].obj)]_vars

\* C1 witness: a log_model_version failed after its push: its version is pushed
\* but not listed, while another version is listed (and pushed).
C1_PushedButUnlisted ==
    \E c \in Clients, v \in Versions :
        /\ pc[c] = "done"
        /\ call[c].op = "log_model_version"
        /\ call[c].outcome = "raised"
        /\ Pushed(call[c].model_version)
        /\ ~Listed(call[c].model_version)
        /\ Listed(v) /\ Pushed(v)

\* C2 (as claimed): the step on which a call of log_json_artifact,
\* log_model_version or get_model_version returns or raises leaves no staging
\* file or directory that it created: the local disk holds no path it did not
\* hold before the step. (make_model_version_local_paths, whose result is the
\* directory it creates, is not one of these calls.)
C2_NoStagingLeftBehind ==
    [][\A c \in Clients :
          (/\ pc[c] # "done" /\ pc'[c] = "done"
           /\ call'[c].op \in {"log_json_artifact", "log_model_version",
                               "get_model_version"}) =>
              localDisk'[c] \subseteq localDisk[c]]_vars

\* C3 (as claimed): after a merge, no prior row that came from a newer version
\* than the new series has been replaced: it is still in the stored table.
C3_OlderNeverOverwritesNewer ==
    \A c \in Clients : (LoggedBacktest(c) /\ call[c].read = "ok") =>
        \A r \in FrameRows(call[c].prior_model_backtest) :
            r.version_timestamp > call[c].version_timestamp => r \in FrameRows(Stored)

\* C4 (as claimed): when the read of the prior backtest fails with something
\* other than NotFound, the call raises and the stored backtest is unchanged.
C4_OnlyNotFoundIsCaught ==
    [][\A c \in Clients :
          (pc[c] = "merge" /\ call[c].read = "TransportFailure" /\ pc'[c] = "done") =>
              /\ backtestCsv' = backtestCsv
              /\ call'[c].outcome = "raised"]_vars

\* C5 (as claimed): get_model_version of a pushed version returns the object
\* that was logged.
C5_GetModelVersionReturnsModel ==
    \A c \in Clients :
        (/\ pc[c] = "done"
         /\ call[c].op = "get_model_version"
         /\ Pushed(call[c].model_version)) =>
            /\ call[c].outcome = "returned"
            /\ call[c].result = <<Restore(remoteVersionDir[call[c].model_version])>>

IsPrefix(s, t) == Len(s) <= Len(t) /\ SubSeq(t, 1, Len(s)) = s

\* C6 (as claimed): a step of register_model or log_model_version keeps every
\* entry of the version list, in order, and at most adds entries at its end.
C6_AppendOnly ==
    [][\A c \in Clients : StepOf(c, {"register_model", "log_model_version"}) =>
          IsPrefix(Entries, Entries')]_vars

\* C6 (amended): a step of register_model or log_model_version changes the
\* version list only as the return of a log_model_version, which adds its
\* model_version at the end, or as the return of a register_model, which
\* makes it empty.
C6_AppendOnlyExceptRegister ==
    [][\A c \in Clients : StepOf(c, {"register_model", "log_model_version"}) =>
          \/ Entries' = Entries
          \/ /\ call'[c].op = "log_model_version"
             /\ call'[c].outcome = "returned"
             /\ Entries' = Append(Entries, call'[c].model_version)
          \/ /\ call'[c].op = "register_model"
             /\ call'[c].outcome = "returned"
             /\ Entries' = <<>>]_vars

\* C6 witness: a log_model_version returned with its version added after an
\* earlier entry.
C6_SecondVersionLogged ==
    \E c \in Clients :
        /\ pc[c] = "done"
        /\ call[c].op = "log_model_version"
        /\ call[c].outcome = "returned"
        /\ Len(Entries) >= 2
        /\ Entries[Len(Entries)] = call[c].model_version

\* C7: a first log (no prior backtest, version_timestamp not supplied) stores
\* the input rows, in order, each with version_timestamp = the largest input
\* key; that is what get_model_backtest then reads.
C7_FirstLogStoresInput ==
    \A c \in Clients :
        (LoggedBacktest(c) /\ call[c].read = "NotFound" /\ ~call[c].supplied) =>
            /\ backtestCsv.exists
            /\ Len(Stored) = Len(call[c].series)
            /\ \A i \in 1..Len(Stored) :
                /\ Stored[i].date = call[c].series[i].date
                /\ Stored[i].pred = call[c].series[i].pred
                /\ Stored[i].version_timestamp \in FrameKeys(call[c].series)
                /\ \A k \in FrameKeys(call[c].series) : k <= Stored[i].version_timestamp

\* C7 witness: such a first log of a series of several rows returned.
C7_FirstLogDone ==
    \E c \in Clients :
        /\ LoggedBacktest(c) /\ call[c].read = "NotFound" /\ ~call[c].supplied
        /\ Len(call[c].series) >= 2
        /\ Len(Stored) >= 2

\* C8: after a merge the stored keys are those of the prior and of the new
\* series, one row per key, a key only the new series has carrying the new
\* row; with disjoint key sets the stored rows are exactly the prior rows and
\* the new rows, ascending by key.
C8_DisjointMergeIsUnion ==
    \A c \in Clients : (LoggedBacktest(c) /\ call[c].read = "ok") =>
        LET prior == call[c].prior_model_backtest
            new == call[c].model_backtest
        IN  /\ FrameKeys(Stored) = FrameKeys(prior) \cup FrameKeys(call[c].series)
            /\ Len(Stored) = Cardinality(FrameKeys(Stored))
            /\ \A k \in FrameKeys(call[c].series) \ FrameKeys(prior) :
                  RowOf(Stored, k) =
                      [date |-> k, pred |-> RowOf(call[c].series, k).pred,
                       version_timestamp |-> call[c].version_timestamp]
            /\ (FrameKeys(prior) \cap FrameKeys(new) = {}) =>
                  /\ FrameRows(Stored) = FrameRows(prior) \cup FrameRows(new)
                  /\ Ascending(Stored)

\* C8 witness: a merge of disjoint key sets returned, the new series holding a
\* key below a prior key.
C8_DisjointMergeDone ==
    \E c \in Clients :
        /\ LoggedBacktest(c) /\ call[c].read = "ok"
        /\ FrameKeys(call[c].prior_model_backtest) \cap FrameKeys(call[c].series) = {}
        /\ \E k \in FrameKeys(call[c].series) :
              \E j \in FrameKeys(call[c].prior_model_backtest) : k < j

\* The three conditions of the override, written out for prior row r.
Replaced(r, c) ==
    /\ r.date \in FrameKeys(call[c].series)
    /\ r.version_timestamp > call[c].version_timestamp
    /\ r.date < r.version_timestamp

\* C9: after a merge, a prior row is stored as the new series' row for its key
\* (values and new version_timestamp) exactly when its key is in the new series,
\* its version_timestamp is greater than the new one and its key is less than
\* its own version_timestamp; otherwise it is stored unchanged.
C9_OverrideIffAllThree ==
    \A c \in Clients : (LoggedBacktest(c) /\ call[c].read = "ok") =>
        \A r \in FrameRows(call[c].prior_model_backtest) :
            RowOf(Stored, r.date) =
                IF Replaced(r, c)
                    THEN [date |-> r.date, pred |-> RowOf(call[c].series, r.date).pred,
                          version_timestamp |-> call[c].version_timestamp]
                    ELSE r

\* C9 witness: a merge returned in which one prior row was replaced and another
\* prior row, also a key of the new series, was kept.
C9_ReplacedAndKept ==
    \E c \in Clients :
        /\ LoggedBacktest(c) /\ call[c].read = "ok"
        /\ \E r, q \in FrameRows(call[c].prior_model_backtest) :
            /\ Replaced(r, c)
            /\ RowOf(Stored, r.date) # r
            /\ q.date \in FrameKeys(call[c].series)
            /\ ~Replaced(q, c)
            /\ RowOf(Stored, q.date) = q

\* C10: when two clients have both logged a backtest after reading the same
\* prior table, the stored table holds the keys of one client's merge only:
\* the prior keys and that client's keys, and no key that only the other
\* client contributed.
C10_LastWriterWins ==
    \A c, d \in Clients :
        (/\ c # d
         /\ LoggedBacktest(c) /\ LoggedBacktest(d)
         /\ call[c].read = "ok" /\ call[d].read = "ok"
         /\ call[c].prior_model_backtest = call[d].prior_model_backtest) =>
            \E w \in {c, d} :
                LET l == CHOOSE x \in {c, d} : x # w
                IN  /\ FrameKeys(Stored) =
                          FrameKeys(call[w].prior_model_backtest)
                              \cup FrameKeys(call[w].series)
                    /\ \A k \in FrameKeys(call[l].series) :
                          k \notin FrameKeys(call[w].prior_model_backtest)
                                      \cup FrameKeys(call[w].series)
                              => k \notin FrameKeys(Stored)

\* C10 witness: both clients read the same prior table, both logged, and a key
\* that one of them logged is not in the stored table.
C10_UpdateLost ==
    \E c, d \in Clients :
        /\ c # d
        /\ LoggedBacktest(c) /\ LoggedBacktest(d)
        /\ call[c].read = "ok" /\ call[d].read = "ok"
        /\ call[c].prior_model_backtest = call[d].prior_model_backtest
        /\ \E k \in FrameKeys(call[c].series) : k \notin FrameKeys(Stored)
        /\ FrameKeys(call[d].series) \subseteq FrameKeys(Stored)

====
